---- MODULE Spec2Model ----
(***************************************************************************)
(* Model of packages/web/src/ical.ts: the VEVENT block extractor           *)
(* (icalToWebDav, webDavToIcal), the record codec (parseIcal, icalToString *)
(* and their twins parseWebDav, webDavToString), the date-time helpers     *)
(* (parseIcalDateTime, formatToIcalDateTime) and the Event mapping         *)
(* (mapEventToIcalObject, mapIcalObjectToEvent).                           *)
(*                                                                         *)
(* JavaScript strings are TLA+ strings (Len, \o and SubSeq apply to them). *)
(* A nullable local (string | null, object | null) is a sequence of length *)
(* 0 (null) or 1 (the value).  A JavaScript object is the sequence of its  *)
(* own <<key, value>> entries in insertion order, keys unique.             *)
(***************************************************************************)
EXTENDS Integers, Sequences, FiniteSets

VARIABLES
    fn,            \* the exported function being executed
    pc,            \* its position: "call", "loop", "done", ...
    icalData,      \* the text argument (icalData / webDavData)
    baseUrl,       \* second argument of icalToWebDav
    lines,         \* const lines = icalData.split("\n")
    i,             \* position of the for-of loop in lines (1-based)
    currentLine,   \* extractor accumulator: string | null
    webDavLines,   \* icalToWebDav: emitted blocks
    icalLines,     \* webDavToIcal: emitted blocks
    currentEvent,  \* parser accumulator: object | null
    events,        \* parseIcal: emitted records
    records,       \* the argument of icalToString, kept by the caller
    ret,           \* the returned value
    event,         \* the argument of mapEventToIcalObject, kept by the caller
    icalObj,       \* the argument of mapIcalObjectToEvent
    thrown,        \* the error thrown, if any
    tz,            \* the local time zone: minutes east of UTC
    dateTimeArg,   \* the argument dateTimeStr of parseIcalDateTime
    dateArg,       \* the argument date of formatToIcalDateTime
    timezoneArg,   \* the argument timezone of formatToIcalDateTime
    twinRet        \* what a caller keeps of a first call while it makes a second one

\* the arguments of the date-time helpers
dateVars == <<dateTimeArg, dateArg, timezoneArg>>

\* the state of a caller that compares two functions
callerVars == <<twinRet>>

\* the state of the Event mapping, of the date-time helpers and of the caller
mapperVars == <<event, icalObj, thrown, tz, dateVars, callerVars>>

vars == <<fn, pc, icalData, baseUrl, lines, i, currentLine, webDavLines,
          icalLines, currentEvent, events, records, ret, event, icalObj,
          thrown, tz, dateTimeArg, dateArg, timezoneArg, twinRet>>

----------------------------------------------------------------------------
(* Bounds of the model *)

MaxLines == 4        \* lines of an extractor input
MaxParseLines == 5   \* lines of a parser input made of markers and plain properties
MaxBodyLines == 2    \* lines between BEGIN:VEVENT and END:VEVENT of the other parser inputs
MaxDupLines == 3     \* property lines of a block that repeats keys
MaxTwinLines == 3    \* lines or items of an argument handed to two twin functions
MaxItems == 4        \* records plus properties of an icalToString argument
MaxOrderItems == 4   \* the same, for the arguments with skipped and integer-like keys
MaxCustom == 1       \* custom fields of an Event
MaxRescanLines == 4   \* lines of a text handed to an extractor twice

----------------------------------------------------------------------------
(* JavaScript built-ins used by the code *)

Null == <<>>
Some(v) == <<v>>

\* truthiness of a (string | null) local: null and "" are falsy
TruthyStr(x) == x # Null /\ x[1] # ""

\* truthiness of an (object | null) local: every object is truthy
TruthyObj(x) == x # Null

startsWith(s, p) == Len(s) >= Len(p) /\ SubSeq(s, 1, Len(p)) = p

endsWith(s, p) == Len(s) >= Len(p) /\ SubSeq(s, Len(s) - Len(p) + 1, Len(s)) = p

\* 1-based position of the first occurrence of the character c in s, 0 if none
indexOf(s, c) ==
    IF \E k \in 1..Len(s) : SubSeq(s, k, k) = c
    THEN CHOOSE k \in 1..Len(s) :
            /\ SubSeq(s, k, k) = c
            /\ \A j \in 1..(k - 1) : SubSeq(s, j, j) # c
    ELSE 0

RECURSIVE split(_, _)
\* String.prototype.split with a one-character separator
split(s, sep) ==
    LET p == indexOf(s, sep) IN
    IF p = 0 THEN <<s>>
    ELSE <<SubSeq(s, 1, p - 1)>> \o split(SubSeq(s, p + 1, Len(s)), sep)

RECURSIVE join(_, _)
\* Array.prototype.join
join(parts, sep) ==
    IF parts = <<>> THEN ""
    ELSE IF Len(parts) = 1 THEN parts[1]
    ELSE parts[1] \o sep \o join(Tail(parts), sep)

\* the white space String.prototype.trim strips (the characters the model uses)
WhiteSpace == {" ", "\t", "\r", "\n"}

RECURSIVE trimStart(_)
trimStart(s) ==
    IF s # "" /\ SubSeq(s, 1, 1) \in WhiteSpace
    THEN trimStart(SubSeq(s, 2, Len(s))) ELSE s

RECURSIVE trimEnd(_)
trimEnd(s) ==
    IF s # "" /\ SubSeq(s, Len(s), Len(s)) \in WhiteSpace
    THEN trimEnd(SubSeq(s, 1, Len(s) - 1)) ELSE s

trim(s) == trimEnd(trimStart(s))

\* JavaScript values held by object properties
Str(s) == [t |-> "string", s |-> s]
Undefined == [t |-> "undefined"]
Bool(b) == [t |-> "boolean", b |-> b]

\* typeof v
typeof(v) == v.t

\* truthiness of a property value: "", false and undefined are falsy
Truthy(v) ==
    IF v.t = "string" THEN v.s # ""
    ELSE IF v.t = "boolean" THEN v.b
    ELSE v.t # "undefined"

\* the string a template literal `${v}` gives
templateString(v) ==
    IF v.t = "string" THEN v.s
    ELSE IF v.t = "boolean" THEN (IF v.b THEN "true" ELSE "false")
    ELSE v.t

hasOwn(obj, k) == \E n \in 1..Len(obj) : obj[n][1] = k

\* obj[k]
get(obj, k) ==
    IF hasOwn(obj, k)
    THEN obj[CHOOSE n \in 1..Len(obj) : obj[n][1] = k][2]
    ELSE Undefined

\* obj[k] = v on an object created by a literal: an own key keeps its place,
\* a new key goes last; the key "__proto__" reaches the prototype setter,
\* which creates no own property
set(obj, k, v) ==
    IF k = "__proto__" THEN obj
    ELSE IF hasOwn(obj, k)
    THEN [n \in 1..Len(obj) |-> IF obj[n][1] = k THEN <<k, v>> ELSE obj[n]]
    ELSE Append(obj, <<k, v>>)

Digits == <<"0", "1", "2", "3", "4", "5", "6", "7", "8", "9">>

isDigit(c) == \E d \in 1..Len(Digits) : Digits[d] = c

digitValue(c) == (CHOOSE d \in 1..Len(Digits) : Digits[d] = c) - 1

RECURSIVE digitsValue(_)
\* the number a string of decimal digits denotes
digitsValue(s) ==
    IF s = "" THEN 0
    ELSE digitsValue(SubSeq(s, 1, Len(s) - 1)) * 10 + digitValue(SubSeq(s, Len(s), Len(s)))

\* a key that is a canonical array index: own keys of this form are
\* enumerated first, in ascending numeric order
isIndexKey(k) ==
    /\ k # ""
    /\ \A n \in 1..Len(k) : isDigit(SubSeq(k, n, n))
    /\ (Len(k) = 1 \/ SubSeq(k, 1, 1) # "0")

RECURSIVE sortIndexEntries(_)
sortIndexEntries(es) ==
    IF es = <<>> THEN <<>>
    ELSE LET m == CHOOSE n \in 1..Len(es) :
                     \A o \in 1..Len(es) : digitsValue(es[n][1]) <= digitsValue(es[o][1])
         IN <<es[m]>> \o sortIndexEntries(SubSeq(es, 1, m - 1) \o SubSeq(es, m + 1, Len(es)))

\* Object.entries(obj), also the order of for-in over own properties
entries(obj) ==
    LET idx == SelectSeq(obj, LAMBDA e : isIndexKey(e[1]))
        oth == SelectSeq(obj, LAMBDA e : ~isIndexKey(e[1]))
    IN sortIndexEntries(idx) \o oth

----------------------------------------------------------------------------
(* Inputs *)

\* no caller is comparing two functions
NoTwinCall == twinRet = Null

\* no date-time helper is being called
NoDateCall == dateTimeArg = Null /\ dateArg = Null /\ timezoneArg = FALSE

RECURSIVE SeqsUpTo(_, _)
\* the sequences of at most n elements of S
SeqsUpTo(S, n) ==
    IF n = 0 THEN {<<>>}
    ELSE LET shorter == SeqsUpTo(S, n - 1) IN
         shorter \cup {Append(q, x) : q \in shorter, x \in S}

\* lines of the extractor's inputs: markers, lines that only start with a
\* marker, property lines, an empty line
ExtractLineSet ==
    {"BEGIN:VEVENT", "END:VEVENT", "BEGIN:VEVENT;X", "END:VEVENTS",
     "SUMMARY:a", ""}

ExtractTexts == {join(ls, "\n") : ls \in SeqsUpTo(ExtractLineSet, MaxLines)}

BaseUrls == {"", "http://example.com/caldav/"}

----------------------------------------------------------------------------
(* icalToWebDav, ical.ts lines 3-29 *)

icalToWebDavCall ==
    /\ fn = "icalToWebDav" /\ pc = "call"
    /\ lines' = split(icalData, "\n")
    /\ webDavLines' = <<>>
    /\ currentLine' = Null
    /\ i' = 1
    /\ pc' = "loop"
    /\ UNCHANGED <<fn, icalData, baseUrl, icalLines, currentEvent, events,
                   records, ret,
                   mapperVars>>

\* Faulty variant of the loop body: a BEGIN:VEVENT line starts a new block
\* without pushing the open one.
icalToWebDavLine_NoFlushOnBegin ==
    /\ fn = "icalToWebDav" /\ pc = "loop" /\ i <= Len(lines)
    /\ LET line == lines[i] IN
       IF startsWith(line, "BEGIN:VEVENT") THEN
           /\ currentLine' = Some(line)
           /\ UNCHANGED webDavLines
       ELSE IF startsWith(line, "END:VEVENT") THEN
           IF TruthyStr(currentLine)
           THEN /\ webDavLines' = Append(webDavLines, currentLine[1])
                /\ currentLine' = Null
           ELSE UNCHANGED <<webDavLines, currentLine>>
       ELSE IF TruthyStr(currentLine) THEN
           /\ currentLine' = Some(currentLine[1] \o "\n" \o line)
           /\ UNCHANGED webDavLines
       ELSE UNCHANGED <<webDavLines, currentLine>>
    /\ i' = i + 1
    /\ UNCHANGED <<fn, pc, icalData, baseUrl, lines, icalLines, currentEvent,
                   events, records, ret,
                   mapperVars>>

\* Faulty variant of the loop body: the END:VEVENT line is appended to the
\* block it closes.
icalToWebDavLine_EndKept ==
    /\ fn = "icalToWebDav" /\ pc = "loop" /\ i <= Len(lines)
    /\ LET line == lines[i] IN
       IF startsWith(line, "BEGIN:VEVENT") THEN
           /\ webDavLines' = IF TruthyStr(currentLine)
                             THEN Append(webDavLines, currentLine[1])
                             ELSE webDavLines
           /\ currentLine' = Some(line)
       ELSE IF startsWith(line, "END:VEVENT") THEN
           IF TruthyStr(currentLine)
           THEN /\ webDavLines' = Append(webDavLines, currentLine[1] \o "\n" \o line)
                /\ currentLine' = Null
           ELSE UNCHANGED <<webDavLines, currentLine>>
       ELSE IF TruthyStr(currentLine) THEN
           /\ currentLine' = Some(currentLine[1] \o "\n" \o line)
           /\ UNCHANGED webDavLines
       ELSE UNCHANGED <<webDavLines, currentLine>>
    /\ i' = i + 1
    /\ UNCHANGED <<fn, pc, icalData, baseUrl, lines, icalLines, currentEvent,
                   events, records, ret,
                   mapperVars>>

\* Faulty variant of the loop body: a line outside any block opens an
\* accumulator instead of being discarded.
icalToWebDavLine_OutsideKept ==
    /\ fn = "icalToWebDav" /\ pc = "loop" /\ i <= Len(lines)
    /\ LET line == lines[i] IN
       IF startsWith(line, "BEGIN:VEVENT") THEN
           /\ webDavLines' = IF TruthyStr(currentLine)
                             THEN Append(webDavLines, currentLine[1])
                             ELSE webDavLines
           /\ currentLine' = Some(line)
       ELSE IF startsWith(line, "END:VEVENT") THEN
           IF TruthyStr(currentLine)
           THEN /\ webDavLines' = Append(webDavLines, currentLine[1])
                /\ currentLine' = Null
           ELSE UNCHANGED <<webDavLines, currentLine>>
       ELSE /\ currentLine' = Some((IF currentLine = Null THEN "null" ELSE currentLine[1])
                                   \o "\n" \o line)
            /\ UNCHANGED webDavLines
    /\ i' = i + 1
    /\ UNCHANGED <<fn, pc, icalData, baseUrl, lines, icalLines, currentEvent,
                   events, records, ret,
                   mapperVars>>

\* one iteration of the for-of loop
icalToWebDavLine ==
    /\ fn = "icalToWebDav" /\ pc = "loop" /\ i <= Len(lines)
    /\ LET line == lines[i] IN
       IF startsWith(line, "BEGIN:VEVENT") THEN
           /\ webDavLines' = IF TruthyStr(currentLine)
                             THEN Append(webDavLines, currentLine[1])
                             ELSE webDavLines
           /\ currentLine' = Some(line)
       ELSE IF startsWith(line, "END:VEVENT") THEN
           IF TruthyStr(currentLine)
           THEN /\ webDavLines' = Append(webDavLines, currentLine[1])
                /\ currentLine' = Null
           ELSE UNCHANGED <<webDavLines, currentLine>>
       ELSE IF TruthyStr(currentLine) THEN
           /\ currentLine' = Some(currentLine[1] \o "\n" \o line)
           /\ UNCHANGED webDavLines
       ELSE UNCHANGED <<webDavLines, currentLine>>
    /\ i' = i + 1
    /\ UNCHANGED <<fn, pc, icalData, baseUrl, lines, icalLines, currentEvent,
                   events, records, ret,
                   mapperVars>>

\* Faulty variant of the return: the block still open at the end of the
\* input is dropped.
icalToWebDavReturn_NoFlush ==
    /\ fn = "icalToWebDav" /\ pc = "loop" /\ i > Len(lines)
    /\ ret' = join(webDavLines, "\n")
    /\ pc' = "done"
    /\ UNCHANGED <<fn, icalData, baseUrl, lines, i, currentLine, webDavLines,
                   icalLines, currentEvent, events, records,
                   mapperVars>>

\* Faulty variant of the return: the blocks are joined with an empty line
\* between them.
icalToWebDavReturn_BlankLineJoin ==
    /\ fn = "icalToWebDav" /\ pc = "loop" /\ i > Len(lines)
    /\ webDavLines' = IF TruthyStr(currentLine)
                      THEN Append(webDavLines, currentLine[1])
                      ELSE webDavLines
    /\ ret' = join(webDavLines', "\n\n")
    /\ pc' = "done"
    /\ UNCHANGED <<fn, icalData, baseUrl, lines, i, currentLine, icalLines,
                   currentEvent, events, records,
                   mapperVars>>

\* after the loop: flush the open block, join, return
icalToWebDavReturn ==
    /\ fn = "icalToWebDav" /\ pc = "loop" /\ i > Len(lines)
    /\ webDavLines' = IF TruthyStr(currentLine)
                      THEN Append(webDavLines, currentLine[1])
                      ELSE webDavLines
    /\ ret' = join(webDavLines', "\n")
    /\ pc' = "done"
    /\ UNCHANGED <<fn, icalData, baseUrl, lines, i, currentLine, icalLines,
                   currentEvent, events, records,
                   mapperVars>>

----------------------------------------------------------------------------
(* webDavToIcal, ical.ts lines 31-57 *)

webDavToIcalCall ==
    /\ fn = "webDavToIcal" /\ pc = "call"
    /\ lines' = split(icalData, "\n")
    /\ icalLines' = <<>>
    /\ currentLine' = Null
    /\ i' = 1
    /\ pc' = "loop"
    /\ UNCHANGED <<fn, icalData, baseUrl, webDavLines, currentEvent, events,
                   records, ret,
                   mapperVars>>

webDavToIcalLine ==
    /\ fn = "webDavToIcal" /\ pc = "loop" /\ i <= Len(lines)
    /\ LET line == lines[i] IN
       IF startsWith(line, "BEGIN:VEVENT") THEN
           /\ icalLines' = IF TruthyStr(currentLine)
                           THEN Append(icalLines, currentLine[1])
                           ELSE icalLines
           /\ currentLine' = Some(line)
       ELSE IF startsWith(line, "END:VEVENT") THEN
           IF TruthyStr(currentLine)
           THEN /\ icalLines' = Append(icalLines, currentLine[1])
                /\ currentLine' = Null
           ELSE UNCHANGED <<icalLines, currentLine>>
       ELSE IF TruthyStr(currentLine) THEN
           /\ currentLine' = Some(currentLine[1] \o "\n" \o line)
           /\ UNCHANGED icalLines
       ELSE UNCHANGED <<icalLines, currentLine>>
    /\ i' = i + 1
    /\ UNCHANGED <<fn, pc, icalData, baseUrl, lines, webDavLines,
                   currentEvent, events, records, ret,
                   mapperVars>>

\* Faulty variant of the return: the block still open at the end of the
\* input is dropped.
webDavToIcalReturn_NoFlush ==
    /\ fn = "webDavToIcal" /\ pc = "loop" /\ i > Len(lines)
    /\ ret' = join(icalLines, "\n")
    /\ pc' = "done"
    /\ UNCHANGED <<fn, icalData, baseUrl, lines, i, currentLine, webDavLines,
                   icalLines, currentEvent, events, records,
                   mapperVars>>

webDavToIcalReturn ==
    /\ fn = "webDavToIcal" /\ pc = "loop" /\ i > Len(lines)
    /\ icalLines' = IF TruthyStr(currentLine)
                    THEN Append(icalLines, currentLine[1])
                    ELSE icalLines
    /\ ret' = join(icalLines', "\n")
    /\ pc' = "done"
    /\ UNCHANGED <<fn, icalData, baseUrl, lines, i, currentLine, webDavLines,
                   currentEvent, events, records,
                   mapperVars>>

----------------------------------------------------------------------------
(* The extractor on its own *)

InitExtract ==
    /\ fn \in {"icalToWebDav", "webDavToIcal"}
    /\ pc = "call"
    /\ icalData \in ExtractTexts
    /\ baseUrl \in (IF fn = "icalToWebDav" THEN BaseUrls ELSE {""})
    /\ lines = <<>>
    /\ i = 1
    /\ currentLine = Null
    /\ webDavLines = <<>>
    /\ icalLines = <<>>
    /\ currentEvent = Null
    /\ events = <<>>
    /\ records = Null
    /\ ret = Null
    /\ event = Null
    /\ icalObj = Null
    /\ thrown = Null
    /\ tz = 0
    /\ NoDateCall
    /\ NoTwinCall

NextExtract ==
    \/ icalToWebDavCall
    \/ icalToWebDavLine
    \/ icalToWebDavReturn
    \/ webDavToIcalCall
    \/ webDavToIcalLine
    \/ webDavToIcalReturn

SpecExtract == InitExtract /\ [][NextExtract]_vars

----------------------------------------------------------------------------
(* Properties of the extractor.  They describe the result from the input   *)
(* lines alone, without the operators the model of the code is built from. *)

HasPrefix(s, p) == Len(s) >= Len(p) /\ \A k \in 1..Len(p) : SubSeq(s, k, k) = SubSeq(p, k, k)
IsBegin(l) == HasPrefix(l, "BEGIN:VEVENT")
IsEnd(l) == HasPrefix(l, "END:VEVENT")
IsMarker(l) == IsBegin(l) \/ IsEnd(l)

Extracting == fn \in {"icalToWebDav", "webDavToIcal"}

\* the blocks pushed so far by the running extractor
emitted == IF fn = "icalToWebDav" THEN webDavLines ELSE icalLines

RECURSIVE Ascending(_)
Ascending(S) ==
    IF S = {} THEN <<>>
    ELSE LET m == CHOOSE x \in S : \A y \in S : x <= y IN
         <<m>> \o Ascending(S \ {m})

RECURSIVE Glue(_)
\* the lines of a block, each after the first preceded by a newline
Glue(ls) == IF ls = <<>> THEN "" ELSE
            IF Len(ls) = 1 THEN ls[1]
            ELSE Glue(SubSeq(ls, 1, Len(ls) - 1)) \o "\n" \o ls[Len(ls)]

\* positions of the BEGIN lines among the first n lines
BeginPositions(n) == Ascending({p \in 1..n : IsBegin(lines[p])})

\* where the block begun at p stops among the first n lines: at the next
\* marker line, or after line n
BlockStop(p, n) ==
    IF \E q \in (p + 1)..n : IsMarker(lines[q])
    THEN CHOOSE q \in (p + 1)..n :
            IsMarker(lines[q]) /\ \A r \in (p + 1)..(q - 1) : ~IsMarker(lines[r])
    ELSE n + 1

BlockAt(p, n) == Glue(SubSeq(lines, p, BlockStop(p, n) - 1))

ExpectedBlocks(n) ==
    LET pos == BeginPositions(n) IN [k \in 1..Len(pos) |-> BlockAt(pos[k], n)]

\* a block is open after n lines: the last marker among them is a BEGIN
OpenAfter(n) ==
    \E p \in 1..n : IsBegin(lines[p]) /\ \A q \in (p + 1)..n : ~IsMarker(lines[q])

\* the blocks pushed so far followed by the open one
blocksSoFar == emitted \o (IF currentLine = Null THEN <<>> ELSE <<currentLine[1]>>)

\* C4: a BEGIN:VEVENT line arriving while a block is open pushes the open
\* block as accumulated and starts a new block holding only that line; no
\* block holds lines of an earlier one, and every block is emitted exactly
\* once, in input order: after any number of lines the pushed blocks plus the
\* open one are exactly the runs of lines from each BEGIN line up to the next
\* marker line, in input order, and the returned text is their join.
C4_BlocksOnceInOrder ==
    Extracting =>
        /\ pc = "loop" =>
              /\ blocksSoFar = ExpectedBlocks(i - 1)
              /\ (currentLine # Null) <=> OpenAfter(i - 1)
        /\ pc = "done" =>
              /\ emitted = ExpectedBlocks(Len(lines))
              /\ ret = Glue(emitted)

\* a nested BEGIN was scanned: two BEGIN lines with body lines and no marker between
C4_Witness ==
    /\ Extracting /\ pc = "done" /\ Len(emitted) >= 2
    /\ \E p \in 1..Len(lines), q \in 1..Len(lines) :
          /\ p + 1 < q /\ IsBegin(lines[p]) /\ IsBegin(lines[q])
          /\ \A r \in (p + 1)..(q - 1) : ~IsMarker(lines[r]) /\ lines[r] # ""
          /\ q < Len(lines) /\ ~IsMarker(lines[q + 1]) /\ lines[q + 1] # ""

\* the lines of a text, cut at every newline
RECURSIVE LinesOf(_)
LinesOf(s) ==
    IF \E k \in 1..Len(s) : SubSeq(s, k, k) = "\n"
    THEN LET k == CHOOSE k \in 1..Len(s) :
                    SubSeq(s, k, k) = "\n" /\ \A j \in (k + 1)..Len(s) : SubSeq(s, j, j) # "\n"
         IN Append(LinesOf(SubSeq(s, 1, k - 1)), SubSeq(s, k + 1, Len(s)))
    ELSE <<s>>

\* C5: every block the extractor emits starts with its BEGIN:VEVENT line and
\* no line of a block or of the returned text starts with END:VEVENT.
C5_BeginKeptEndStripped ==
    Extracting =>
        /\ \A k \in 1..Len(blocksSoFar) :
              /\ IsBegin(blocksSoFar[k])
              /\ \A l \in 1..Len(LinesOf(blocksSoFar[k])) : ~IsEnd(LinesOf(blocksSoFar[k])[l])
        /\ pc = "done" => \A l \in 1..Len(LinesOf(ret)) : ~IsEnd(LinesOf(ret)[l])

\* an END:VEVENT line closed an open block and a block was returned
C5_Witness ==
    /\ Extracting /\ pc = "done" /\ ret # ""
    /\ \E q \in 2..Len(lines) : IsEnd(lines[q]) /\ OpenAfter(q - 1)

\* C6: when the input ends while a block is open, the block is pushed as
\* accumulated: the last emitted block is the BEGIN line and every line after
\* it, unchanged and in order, and the returned text ends with it.
C6_UnterminatedBlockFlushed ==
    (Extracting /\ pc = "done" /\ OpenAfter(Len(lines))) =>
        LET p == CHOOSE p \in 1..Len(lines) :
                    IsBegin(lines[p]) /\ \A q \in (p + 1)..Len(lines) : ~IsMarker(lines[q])
            tail == Glue(SubSeq(lines, p, Len(lines)))
        IN /\ emitted # <<>>
           /\ emitted[Len(emitted)] = tail
           /\ Len(ret) >= Len(tail)
           /\ SubSeq(ret, Len(ret) - Len(tail) + 1, Len(ret)) = tail

\* the input ended in an open block of several lines
C6_Witness ==
    /\ Extracting /\ pc = "done" /\ OpenAfter(Len(lines))
    /\ Len(lines) >= 2 /\ ~IsMarker(lines[Len(lines)])

\* C7 (state part): an input with no line starting with BEGIN:VEVENT, the
\* empty input included, yields the empty string.
C7_NoBeginGivesEmpty ==
    (Extracting /\ pc = "done" /\ \A p \in 1..Len(lines) : ~IsBegin(lines[p]))
        => ret = "" /\ emitted = <<>>

\* C7: a line that starts with neither marker and arrives while no block is
\* open leaves the accumulator and the output list unchanged; consequently an
\* input without a BEGIN:VEVENT line yields the empty string.
C7_OutsideLineIgnored ==
    /\ [][(Extracting /\ pc = "loop" /\ i <= Len(lines) /\ ~IsMarker(lines[i])
             /\ ~OpenAfter(i - 1))
            => (currentLine' = currentLine /\ webDavLines' = webDavLines
                  /\ icalLines' = icalLines)]_vars
    /\ []C7_NoBeginGivesEmpty

\* lines outside any block were scanned: before the first BEGIN and after an END
C7_Witness ==
    /\ Extracting /\ pc = "done" /\ Len(lines) >= 4
    /\ ~IsMarker(lines[1]) /\ IsBegin(lines[2]) /\ IsEnd(lines[3]) /\ ~IsMarker(lines[4])
    /\ lines[4] # ""

----------------------------------------------------------------------------
(* parseIcal, ical.ts lines 59-82 *)

\* Faulty variant of lines 73-77: the value is the text between the first
\* and the second colon (const [key, value] = line.split(":")).
propertyLine_SecondPartOnly(obj, line) ==
    LET parts == split(line, ":")
        key == parts[1]
        value == IF Len(parts) >= 2 THEN trim(parts[2]) ELSE ""
    IN IF key # "" /\ value # ""
       THEN set(obj, trim(key), Str(value))
       ELSE obj

\* lines 73-77: a line other than a marker, met while a record is open
propertyLine(obj, line) ==
    LET parts == split(line, ":")
        key == parts[1]
        valueParts == Tail(parts)
        value == trim(join(valueParts, ":"))
    IN IF key # "" /\ value # ""
       THEN set(obj, trim(key), Str(value))
       ELSE obj

parseIcalCall ==
    /\ fn = "parseIcal" /\ pc = "call"
    /\ events' = <<>>
    /\ lines' = split(icalData, "\n")
    /\ currentEvent' = Null
    /\ i' = 1
    /\ pc' = "loop"
    /\ UNCHANGED <<fn, icalData, baseUrl, currentLine, webDavLines, icalLines,
                   records, ret,
                   mapperVars>>

\* Faulty variant of the loop body: END:VEVENT pushes the record and leaves
\* it open.
parseIcalLine_EndKeepsOpen ==
    /\ fn = "parseIcal" /\ pc = "loop" /\ i <= Len(lines)
    /\ LET line == lines[i] IN
       IF startsWith(line, "BEGIN:VEVENT") THEN
           /\ currentEvent' = Some(<<>>)
           /\ UNCHANGED events
       ELSE IF startsWith(line, "END:VEVENT") THEN
           IF TruthyObj(currentEvent)
           THEN /\ events' = Append(events, currentEvent[1])
                /\ UNCHANGED currentEvent
           ELSE UNCHANGED <<events, currentEvent>>
       ELSE IF TruthyObj(currentEvent) THEN
           /\ currentEvent' = Some(propertyLine(currentEvent[1], line))
           /\ UNCHANGED events
       ELSE UNCHANGED <<events, currentEvent>>
    /\ i' = i + 1
    /\ UNCHANGED <<fn, pc, icalData, baseUrl, lines, currentLine, webDavLines,
                   icalLines, records, ret,
                   mapperVars>>

\* one iteration of the for-of loop
parseIcalLine ==
    /\ fn = "parseIcal" /\ pc = "loop" /\ i <= Len(lines)
    /\ LET line == lines[i] IN
       IF startsWith(line, "BEGIN:VEVENT") THEN
           /\ currentEvent' = Some(<<>>)
           /\ UNCHANGED events
       ELSE IF startsWith(line, "END:VEVENT") THEN
           IF TruthyObj(currentEvent)
           THEN /\ events' = Append(events, currentEvent[1])
                /\ currentEvent' = Null
           ELSE UNCHANGED <<events, currentEvent>>
       ELSE IF TruthyObj(currentEvent) THEN
           /\ currentEvent' = Some(propertyLine(currentEvent[1], line))
           /\ UNCHANGED events
       ELSE UNCHANGED <<events, currentEvent>>
    /\ i' = i + 1
    /\ UNCHANGED <<fn, pc, icalData, baseUrl, lines, currentLine, webDavLines,
                   icalLines, records, ret,
                   mapperVars>>

\* Faulty variant of the return: the record still open at the end of the
\* input is pushed, as the extractor pushes its open block.
parseIcalReturn_Flush ==
    /\ fn = "parseIcal" /\ pc = "loop" /\ i > Len(lines)
    /\ events' = IF TruthyObj(currentEvent)
                  THEN Append(events, currentEvent[1])
                  ELSE events
    /\ ret' = events'
    /\ pc' = "done"
    /\ UNCHANGED <<fn, icalData, baseUrl, lines, i, currentLine, webDavLines,
                   icalLines, currentEvent, records,
                   mapperVars>>

parseIcalReturn ==
    /\ fn = "parseIcal" /\ pc = "loop" /\ i > Len(lines)
    /\ ret' = events
    /\ pc' = "done"
    /\ UNCHANGED <<fn, icalData, baseUrl, lines, i, currentLine, webDavLines,
                   icalLines, currentEvent, events, records,
                   mapperVars>>

\* parser inputs made of markers and plain property lines
StructLineSet ==
    {"BEGIN:VEVENT", "END:VEVENT", "SUMMARY:a", "UID:b", "SUMMARY:c"}

\* lines met inside a block: well-formed, with several colons, with white
\* space around key and value, without key, without value, without colon
BodyLineSet ==
    {"SUMMARY:a", "DESCRIPTION:Value: with multiple: colons", " KEY : value ",
     "MALFORMEDLINE", "KEYONLY:", ":VALUEONLY", " :v", "KEYONLY: ", "SUMMARY::"}

\* property lines that repeat a key: plainly, with white space around the
\* key, and the key __proto__
DupLineSet ==
    {"SUMMARY:a", "SUMMARY:b", " SUMMARY : c", "UID:x", "__proto__:a",
     "__proto__:b"}

ParseTexts ==
    {join(ls, "\n") : ls \in SeqsUpTo(StructLineSet, MaxParseLines)}
    \cup {join(<<"BEGIN:VEVENT">> \o body \o <<"END:VEVENT">>, "\n") :
            body \in SeqsUpTo(BodyLineSet, MaxBodyLines)}
    \cup {join(<<"BEGIN:VEVENT">> \o body \o <<"END:VEVENT">>, "\n") :
            body \in SeqsUpTo(DupLineSet, MaxDupLines)}

InitParse ==
    /\ fn = "parseIcal"
    /\ pc = "call"
    /\ icalData \in ParseTexts
    /\ baseUrl = ""
    /\ lines = <<>>
    /\ i = 1
    /\ currentLine = Null
    /\ webDavLines = <<>>
    /\ icalLines = <<>>
    /\ currentEvent = Null
    /\ events = <<>>
    /\ records = Null
    /\ ret = Null
    /\ event = Null
    /\ icalObj = Null
    /\ thrown = Null
    /\ tz = 0
    /\ NoDateCall
    /\ NoTwinCall

NextParse ==
    \/ parseIcalCall
    \/ parseIcalLine
    \/ parseIcalReturn

SpecParse == InitParse /\ [][NextParse]_vars

----------------------------------------------------------------------------
(* icalToString, ical.ts lines 84-96 *)

RECURSIVE propertyLines_NoFilter(_)
\* Faulty variant of lines 88-92: a line is pushed for every entry.
propertyLines_NoFilter(es) ==
    IF es = <<>> THEN <<>>
    ELSE <<es[1][1] \o ":" \o templateString(es[1][2])>> \o propertyLines_NoFilter(Tail(es))

RECURSIVE propertyLines(_)
\* lines 88-92: the lines pushed for the entries of one record
propertyLines(es) ==
    IF es = <<>> THEN <<>>
    ELSE LET key == es[1][1]
             value == es[1][2]
         IN (IF key # "" /\ Truthy(value)
             THEN <<key \o ":" \o templateString(value)>>
             ELSE <<>>) \o propertyLines(Tail(es))

RECURSIVE eventLines_NoEnd(_)
\* Faulty variant of lines 86-94: no END:VEVENT line is pushed.
eventLines_NoEnd(recs) ==
    IF recs = <<>> THEN <<>>
    ELSE <<"BEGIN:VEVENT">> \o propertyLines(entries(recs[1]))
         \o eventLines_NoEnd(Tail(recs))

RECURSIVE eventLines(_)
\* lines 86-94: the lines pushed for a list of records
eventLines(recs) ==
    IF recs = <<>> THEN <<>>
    ELSE <<"BEGIN:VEVENT">> \o propertyLines(entries(recs[1])) \o <<"END:VEVENT">>
         \o eventLines(Tail(recs))

icalToString(recs) == join(eventLines(recs), "\n")

icalToStringCall ==
    /\ fn = "icalToString" /\ pc = "call"
    /\ ret' = icalToString(records)
    /\ pc' = "done"
    /\ UNCHANGED <<fn, icalData, baseUrl, lines, i, currentLine, webDavLines,
                   icalLines, currentEvent, events, records,
                   mapperVars>>

\* the caller hands the serialized text to parseIcal
\* (const result = icalToString(events); parseIcal(result))
parseIcalOfResult ==
    /\ fn = "icalToString" /\ pc = "done"
    /\ icalData' = ret
    /\ fn' = "parseIcal"
    /\ pc' = "call"
    /\ ret' = Null
    /\ UNCHANGED <<baseUrl, lines, i, currentLine, webDavLines, icalLines,
                   currentEvent, events, records,
                   mapperVars>>

\* the properties a caller puts into records: two that the text format can
\* carry, and ones with white space around the key or the value, a colon or
\* a newline in the key or value, a marker, the key __proto__
RecordProps ==
    {<<"SUMMARY", "a">>, <<"UID", "b: c">>, <<" K", "a">>, <<"A:B", "a">>,
     <<"BEGIN", "VEVENT">>, <<"SUMMARY", " a">>, <<"__proto__", "a">>,
     <<"UID", "a\nb">>}

\* an item of a caller's construction: a new empty record (<<>>) or a
\* property added to the last record
RecordItems == {<<>>} \cup RecordProps

\* own property k of obj defined or redefined by the caller
define(obj, k, v) ==
    IF hasOwn(obj, k)
    THEN [n \in 1..Len(obj) |-> IF obj[n][1] = k THEN <<k, v>> ELSE obj[n]]
    ELSE Append(obj, <<k, v>>)

RECURSIVE build(_)
\* the list of records a sequence of items constructs
build(items) ==
    IF items = <<>> THEN <<>>
    ELSE LET recs == build(SubSeq(items, 1, Len(items) - 1))
             item == items[Len(items)]
         IN IF item = <<>> THEN Append(recs, <<>>)
            ELSE IF recs = <<>> THEN Append(recs, <<<<item[1], Str(item[2])>>>>)
            ELSE [recs EXCEPT ![Len(recs)] = define(@, item[1], Str(item[2]))]

RecordLists == {build(items) : items \in SeqsUpTo(RecordItems, MaxItems)}

\* properties icalToString skips (empty value, empty key) and keys that are
\* integers, next to plain ones
OrderProps ==
    {<<"SUMMARY", "a">>, <<"UID", "b">>, <<"EMPTY", "">>, <<"", "v">>,
     <<"2", "x">>, <<"10", "y">>}

OrderItems == {<<>>} \cup OrderProps

OrderLists == {build(items) : items \in SeqsUpTo(OrderItems, MaxOrderItems)}

InitCodec ==
    /\ fn = "icalToString"
    /\ pc = "call"
    /\ records \in RecordLists \cup OrderLists
    /\ icalData = ""
    /\ baseUrl = ""
    /\ lines = <<>>
    /\ i = 1
    /\ currentLine = Null
    /\ webDavLines = <<>>
    /\ icalLines = <<>>
    /\ currentEvent = Null
    /\ events = <<>>
    /\ ret = Null
    /\ event = Null
    /\ icalObj = Null
    /\ thrown = Null
    /\ tz = 0
    /\ NoDateCall
    /\ NoTwinCall

NextCodec ==
    \/ icalToStringCall
    \/ parseIcalOfResult
    \/ parseIcalCall
    \/ parseIcalLine
    \/ parseIcalReturn

SpecCodec == InitCodec /\ [][NextCodec]_vars

----------------------------------------------------------------------------
(* parseWebDav, ical.ts lines 98-121 *)

\* lines 112-116: a line other than a marker, met while a record is open
webDavPropertyLine(obj, line) ==
    LET parts == split(line, ":")
        key == parts[1]
        valueParts == Tail(parts)
        value == trim(join(valueParts, ":"))
    IN IF key # "" /\ value # ""
       THEN set(obj, trim(key), Str(value))
       ELSE obj

parseWebDavCall ==
    /\ fn = "parseWebDav" /\ pc = "call"
    /\ events' = <<>>
    /\ lines' = split(icalData, "\n")
    /\ currentEvent' = Null
    /\ i' = 1
    /\ pc' = "loop"
    /\ UNCHANGED <<fn, icalData, baseUrl, currentLine, webDavLines, icalLines,
                   records, ret,
                   mapperVars>>

\* one iteration of the for-of loop
parseWebDavLine ==
    /\ fn = "parseWebDav" /\ pc = "loop" /\ i <= Len(lines)
    /\ LET line == lines[i] IN
       IF startsWith(line, "BEGIN:VEVENT") THEN
           /\ currentEvent' = Some(<<>>)
           /\ UNCHANGED events
       ELSE IF startsWith(line, "END:VEVENT") THEN
           IF TruthyObj(currentEvent)
           THEN /\ events' = Append(events, currentEvent[1])
                /\ currentEvent' = Null
           ELSE UNCHANGED <<events, currentEvent>>
       ELSE IF TruthyObj(currentEvent) THEN
           /\ currentEvent' = Some(webDavPropertyLine(currentEvent[1], line))
           /\ UNCHANGED events
       ELSE UNCHANGED <<events, currentEvent>>
    /\ i' = i + 1
    /\ UNCHANGED <<fn, pc, icalData, baseUrl, lines, currentLine, webDavLines,
                   icalLines, records, ret,
                   mapperVars>>

parseWebDavReturn ==
    /\ fn = "parseWebDav" /\ pc = "loop" /\ i > Len(lines)
    /\ ret' = events
    /\ pc' = "done"
    /\ UNCHANGED <<fn, icalData, baseUrl, lines, i, currentLine, webDavLines,
                   icalLines, currentEvent, events, records,
                   mapperVars>>

----------------------------------------------------------------------------
(* webDavToString, ical.ts lines 123-135 *)

RECURSIVE webDavPropertyLines(_)
\* lines 127-131: the lines pushed for the entries of one record
webDavPropertyLines(es) ==
    IF es = <<>> THEN <<>>
    ELSE LET key == es[1][1]
             value == es[1][2]
         IN (IF key # "" /\ Truthy(value)
             THEN <<key \o ":" \o templateString(value)>>
             ELSE <<>>) \o webDavPropertyLines(Tail(es))

RECURSIVE webDavEventLines(_)
\* lines 125-133: the lines pushed for a list of records
webDavEventLines(recs) ==
    IF recs = <<>> THEN <<>>
    ELSE <<"BEGIN:VEVENT">> \o webDavPropertyLines(entries(recs[1])) \o <<"END:VEVENT">>
         \o webDavEventLines(Tail(recs))

webDavToString(recs) == join(webDavEventLines(recs), "\n")

webDavToStringCall ==
    /\ fn = "webDavToString" /\ pc = "call"
    /\ ret' = webDavToString(records)
    /\ pc' = "done"
    /\ UNCHANGED <<fn, icalData, baseUrl, lines, i, currentLine, webDavLines,
                   icalLines, currentEvent, events, records,
                   mapperVars>>

----------------------------------------------------------------------------
(* A caller that hands one argument to a function and to its twin *)

\* the twin of each iCal-named function
TwinOf(f) ==
    CASE f = "icalToWebDav" -> "webDavToIcal"
      [] f = "parseIcal" -> "parseWebDav"
      [] f = "icalToString" -> "webDavToString"

\* the caller keeps the result and calls the twin with the same argument
\* (webDavToIcal(x) after icalToWebDav(x, b), parseWebDav(x) after
\* parseIcal(x), webDavToString(r) after icalToString(r))
twinCall ==
    /\ fn \in {"icalToWebDav", "parseIcal", "icalToString"} /\ pc = "done"
    /\ twinRet' = Some(ret)
    /\ fn' = TwinOf(fn)
    /\ pc' = "call"
    /\ ret' = Null
    /\ UNCHANGED <<icalData, baseUrl, lines, i, currentLine, webDavLines,
                   icalLines, currentEvent, events, records, event, icalObj,
                   thrown, tz, dateVars>>

TwinExtractTexts == {join(ls, "\n") : ls \in SeqsUpTo(ExtractLineSet, MaxTwinLines)}

TwinParseTexts ==
    {join(ls, "\n") : ls \in SeqsUpTo(StructLineSet, MaxTwinLines)}
    \cup {join(<<"BEGIN:VEVENT">> \o body \o <<"END:VEVENT">>, "\n") :
            body \in SeqsUpTo(BodyLineSet, MaxBodyLines)}
    \cup {join(<<"BEGIN:VEVENT">> \o body \o <<"END:VEVENT">>, "\n") :
            body \in SeqsUpTo(DupLineSet, MaxBodyLines)}

TwinRecordLists ==
    {build(items) : items \in SeqsUpTo(RecordItems, MaxTwinLines)}
    \cup {build(items) : items \in SeqsUpTo(OrderItems, MaxTwinLines)}

InitTwin ==
    /\ \/ /\ fn = "icalToWebDav"
          /\ icalData \in TwinExtractTexts
          /\ baseUrl \in BaseUrls
          /\ records = Null
       \/ /\ fn = "parseIcal"
          /\ icalData \in TwinParseTexts
          /\ baseUrl = ""
          /\ records = Null
       \/ /\ fn = "icalToString"
          /\ icalData = ""
          /\ baseUrl = ""
          /\ records \in TwinRecordLists
    /\ pc = "call"
    /\ lines = <<>>
    /\ i = 1
    /\ currentLine = Null
    /\ webDavLines = <<>>
    /\ icalLines = <<>>
    /\ currentEvent = Null
    /\ events = <<>>
    /\ ret = Null
    /\ event = Null
    /\ icalObj = Null
    /\ thrown = Null
    /\ tz = 0
    /\ NoDateCall
    /\ NoTwinCall

NextTwin ==
    \/ icalToWebDavCall
    \/ icalToWebDavLine
    \/ icalToWebDavReturn
    \/ parseIcalCall
    \/ parseIcalLine
    \/ parseIcalReturn
    \/ icalToStringCall
    \/ twinCall
    \/ webDavToIcalCall
    \/ webDavToIcalLine
    \/ webDavToIcalReturn
    \/ parseWebDavCall
    \/ parseWebDavLine
    \/ parseWebDavReturn
    \/ webDavToStringCall

SpecTwin == InitTwin /\ [][NextTwin]_vars

\* C19: each WebDAV-named function returns, for every input, exactly the
\* result of its iCal-named twin: webDavToIcal(x) = icalToWebDav(x, b) for
\* every text x and every baseUrl b, parseWebDav(x) = parseIcal(x) and
\* webDavToString(r) = icalToString(r).
C19_TwinsAgree ==
    (fn \in {"webDavToIcal", "parseWebDav", "webDavToString"} /\ pc = "done"
        /\ twinRet # <<>>)
     => ret = twinRet[1]

\* a text with two blocks, the second unterminated, went through
\* icalToWebDav with a base URL and through webDavToIcal
C19_Witness ==
    /\ fn = "webDavToIcal" /\ pc = "done" /\ twinRet # <<>>
    /\ baseUrl # "" /\ Len(icalLines) = 2 /\ currentLine # <<>>
    /\ twinRet[1] # ""

----------------------------------------------------------------------------
(* The extractors applied to their own result: a caller keeps the first
   result, its block list and the text it came from, and passes the result
   to the same function again with the same baseUrl *)

rescanCall ==
    /\ fn \in {"icalToWebDav", "webDavToIcal"} /\ pc = "done"
    /\ twinRet = Null
    /\ twinRet' = <<ret, IF fn = "icalToWebDav" THEN webDavLines ELSE icalLines,
                    icalData>>
    /\ icalData' = ret
    /\ pc' = "call"
    /\ ret' = Null
    /\ UNCHANGED <<fn, baseUrl, lines, i, currentLine, webDavLines, icalLines,
                   currentEvent, events, records, event, icalObj, thrown, tz,
                   dateVars>>

RescanLineSet == {"BEGIN:VEVENT", "END:VEVENT", "BEGIN:VEVENT;X", "SUMMARY:a", ""}

RescanTexts == {join(ls, "\n") : ls \in SeqsUpTo(RescanLineSet, MaxRescanLines)}

InitRescan ==
    /\ \/ /\ fn = "icalToWebDav"
          /\ baseUrl \in BaseUrls
       \/ /\ fn = "webDavToIcal"
          /\ baseUrl = ""
    /\ icalData \in RescanTexts
    /\ pc = "call"
    /\ lines = <<>>
    /\ i = 1
    /\ currentLine = Null
    /\ webDavLines = <<>>
    /\ icalLines = <<>>
    /\ currentEvent = Null
    /\ events = <<>>
    /\ records = Null
    /\ ret = Null
    /\ event = Null
    /\ icalObj = Null
    /\ thrown = Null
    /\ tz = 0
    /\ NoDateCall
    /\ NoTwinCall

NextRescan ==
    \/ icalToWebDavCall
    \/ icalToWebDavLine
    \/ icalToWebDavReturn
    \/ webDavToIcalCall
    \/ webDavToIcalLine
    \/ webDavToIcalReturn
    \/ rescanCall

SpecRescan == InitRescan /\ [][NextRescan]_vars

\* the second call has returned
Rescanned ==
    fn \in {"icalToWebDav", "webDavToIcal"} /\ pc = "done" /\ twinRet # <<>>

\* C21: the block extractor is idempotent: for every text x,
\* icalToWebDav(icalToWebDav(x, b), b) = icalToWebDav(x, b) (and the same
\* for webDavToIcal): scanning the joined result again gives the same
\* blocks with the same lines, and so the same text.
C21_ExtractorIdempotent ==
    Rescanned =>
        /\ ret = twinRet[1]
        /\ (IF fn = "icalToWebDav" THEN webDavLines ELSE icalLines) = twinRet[2]

\* icalToWebDav returned from its own result, which has two blocks of
\* several lines, the second one never closed in the second scan, and which
\* differs from the text the first call was given
C21_Witness ==
    /\ Rescanned /\ fn = "icalToWebDav" /\ baseUrl # ""
    /\ Len(webDavLines) = 2 /\ currentLine # <<>>
    /\ webDavLines[1] = "BEGIN:VEVENT\nSUMMARY:a"
    /\ twinRet[3] # twinRet[1]

----------------------------------------------------------------------------
(* Properties of parseIcal *)

IsSpace(c) == c = " " \/ c = "\t" \/ c = "\r" \/ c = "\n"

\* s without its leading and trailing white space
Strip(s) ==
    LET solid == {k \in 1..Len(s) : ~IsSpace(SubSeq(s, k, k))} IN
    IF solid = {} THEN ""
    ELSE SubSeq(s, CHOOSE a \in solid : \A b \in solid : a <= b,
                   CHOOSE a \in solid : \A b \in solid : a >= b)

\* position of the first colon of a line, 0 if it has none
FirstColon(l) ==
    IF \E k \in 1..Len(l) : SubSeq(l, k, k) = ":"
    THEN CHOOSE k \in 1..Len(l) :
            SubSeq(l, k, k) = ":" /\ \A j \in 1..(k - 1) : SubSeq(l, j, j) # ":"
    ELSE 0

KeyText(l) == Strip(SubSeq(l, 1, FirstColon(l) - 1))
ValueText(l) == Strip(SubSeq(l, FirstColon(l) + 1, Len(l)))

HasKey(obj, k) == \E n \in 1..Len(obj) : obj[n][1] = k
HasEntry(obj, k, v) == \E n \in 1..Len(obj) : obj[n] = <<k, v>>

\* obj with key k holding v: in place when obj has the key, last otherwise
Put(obj, k, v) ==
    IF HasKey(obj, k)
    THEN [n \in 1..Len(obj) |-> IF obj[n][1] = k THEN <<k, v>> ELSE obj[n]]
    ELSE obj \o <<<<k, v>>>>

\* parseIcal is about to scan a line that is no marker while a record is open
BodyStep ==
    /\ fn = "parseIcal" /\ pc = "loop" /\ i <= Len(lines)
    /\ ~IsMarker(lines[i]) /\ currentEvent # Null

\* C2: a BEGIN:VEVENT line met while a record is open pushes the open record,
\* with the properties collected so far, to the result list before the new
\* empty record is opened.
C2_NestedBeginFlushesRecord ==
    [][(fn = "parseIcal" /\ pc = "loop" /\ i <= Len(lines)
          /\ IsBegin(lines[i]) /\ currentEvent # Null)
        => (events' = events \o currentEvent /\ currentEvent' = <<<<>>>>)]_vars

\* C8: while a record is open, a line that is no marker is recorded as a
\* property if and only if its trimmed key (before the first colon) and its
\* trimmed value (after it) are both non-empty; any other line adds no entry,
\* so every key of every record is a non-empty string.
C8_RecordedIffKeyAndValue ==
    /\ [][BodyStep =>
            IF FirstColon(lines[i]) > 0 /\ KeyText(lines[i]) # "" /\ ValueText(lines[i]) # ""
            THEN HasEntry(currentEvent'[1], KeyText(lines[i]), Str(ValueText(lines[i])))
            ELSE currentEvent' = currentEvent]_vars
    /\ [](fn = "parseIcal" =>
            \A k \in 1..Len(events \o currentEvent) :
               \A n \in 1..Len((events \o currentEvent)[k]) :
                  (events \o currentEvent)[k][n][1] # "")

\* C9: a property line is split at its first colon only: whenever a line
\* changes the open record, the record gains (or updates) the entry whose key
\* is the trimmed text before the first colon and whose value is the trimmed
\* text after the first colon, later colons kept in place.
C9_SplitAtFirstColon ==
    [][(BodyStep /\ currentEvent' # currentEvent) =>
          /\ FirstColon(lines[i]) > 0
          /\ currentEvent' = <<Put(currentEvent[1], KeyText(lines[i]),
                                   Str(ValueText(lines[i])))>>]_vars

\* a value with colons in it was recorded and returned
C9_Witness ==
    /\ fn = "parseIcal" /\ pc = "done"
    /\ \E k \in 1..Len(ret) :
          HasEntry(ret[k], "DESCRIPTION", Str("Value: with multiple: colons"))

RECURSIVE RecordOfLines(_)
\* the record the body lines of one block give
RecordOfLines(ls) ==
    IF ls = <<>> THEN <<>>
    ELSE propertyLine(RecordOfLines(SubSeq(ls, 1, Len(ls) - 1)), ls[Len(ls)])

\* the END lines among the first n lines that arrive while a record is open
ClosingPositions(n) == Ascending({q \in 1..n : IsEnd(lines[q]) /\ OpenAfter(q - 1)})

\* the BEGIN line that opened the record the END line at q closes
OpenerOf(q) ==
    CHOOSE p \in 1..(q - 1) : IsBegin(lines[p]) /\ \A r \in (p + 1)..(q - 1) : ~IsBegin(lines[r])

ExpectedRecords(n) ==
    LET pos == ClosingPositions(n) IN
    [k \in 1..Len(pos) |-> RecordOfLines(SelectSeq(SubSeq(lines, OpenerOf(pos[k]) + 1, pos[k] - 1),
                                                   LAMBDA l : ~IsMarker(l)))]

\* C10: every END:VEVENT line that arrives while a record is open emits
\* exactly one record (also one without properties) and closes it, an
\* END:VEVENT with no open record emits nothing, records come in input order,
\* and a text with no BEGIN:VEVENT line (the empty text too) gives the empty
\* list.
C10_OneRecordPerClosingEnd ==
    fn = "parseIcal" =>
        /\ pc = "loop" =>
              /\ events = ExpectedRecords(i - 1)
              /\ (currentEvent # Null) <=> OpenAfter(i - 1)
        /\ pc = "done" =>
              /\ ret = ExpectedRecords(Len(lines))
              /\ (\A p \in 1..Len(lines) : ~IsBegin(lines[p])) => ret = <<>>

\* two blocks were closed, the first with a property and the second without any
C10_Witness ==
    /\ fn = "parseIcal" /\ pc = "done"
    /\ Len(ret) = 2 /\ ret[1] # <<>> /\ ret[2] = <<>>

\* the lines of the block the END line at q closes, markers left out
BodyOf(q) == SelectSeq(SubSeq(lines, OpenerOf(q) + 1, q - 1), LAMBDA l : ~IsMarker(l))

\* a line with a colon, a non-empty trimmed key and a non-empty trimmed value
IsPropertyLine(l) == FirstColon(l) > 0 /\ KeyText(l) # "" /\ ValueText(l) # ""

\* the value of the last line of body that carries the key k
LastValueOf(body, k) ==
    LET n == CHOOSE n \in 1..Len(body) :
                /\ IsPropertyLine(body[n]) /\ KeyText(body[n]) = k
                /\ \A m \in (n + 1)..Len(body) :
                      ~(IsPropertyLine(body[m]) /\ KeyText(body[m]) = k)
    IN ValueText(body[n])

\* the record holds k exactly once, with the value of the last line carrying k
HoldsLast(rec, body, k) ==
    /\ Cardinality({n \in 1..Len(rec) : rec[n][1] = k}) = 1
    /\ HasEntry(rec, k, Str(LastValueOf(body, k)))

\* the lines of body that carry the key k
Carrying(body, k) == {n \in 1..Len(body) : IsPropertyLine(body[n]) /\ KeyText(body[n]) = k}

\* C11: within one block, when several property lines carry the same key, the
\* returned record holds that key exactly once and its value is the value of
\* the last such line.
C11_LastWriteWins ==
    (fn = "parseIcal" /\ pc = "done") =>
        LET pos == ClosingPositions(Len(lines)) IN
        \A k \in 1..Len(pos) :
           \A n \in 1..Len(BodyOf(pos[k])) :
              Cardinality(Carrying(BodyOf(pos[k]), KeyText(BodyOf(pos[k])[n]))) >= 2
                 => HoldsLast(ret[k], BodyOf(pos[k]), KeyText(BodyOf(pos[k])[n]))

\* the position of the BEGIN line of the block open after the last line
LastOpener ==
    CHOOSE p \in 1..Len(lines) :
        IsBegin(lines[p]) /\ \A q \in (p + 1)..Len(lines) : ~IsMarker(lines[q])

\* C20: a record still open when parseIcal reaches the end of the input is
\* not emitted: the returned list holds one record per END:VEVENT line that
\* closed a record and nothing else, it is the list the text before the
\* unterminated block gives, and the open record is left behind.
C20_OpenRecordDropped ==
    (fn = "parseIcal" /\ pc = "done" /\ OpenAfter(Len(lines))) =>
        /\ currentEvent # <<>>
        /\ ret = events
        /\ Len(ret) = Cardinality({q \in 1..Len(lines) : IsEnd(lines[q]) /\ OpenAfter(q - 1)})
        /\ ret = ExpectedRecords(LastOpener - 1)

\* a text ended in an open block with a property, after a record was closed:
\* the property is in no returned record
C20_Witness ==
    /\ fn = "parseIcal" /\ pc = "done" /\ OpenAfter(Len(lines))
    /\ Len(ret) >= 1
    /\ currentEvent # <<>> /\ currentEvent[1] # <<>>
    /\ \A k \in 1..Len(ret) : \A n \in 1..Len(currentEvent[1]) :
          ~HasKey(ret[k], currentEvent[1][n][1])

----------------------------------------------------------------------------
(* Properties of icalToString *)

\* a key written as a non-negative integer without leading zeros
IsIntegerName(k) ==
    /\ Len(k) >= 1
    /\ \A n \in 1..Len(k) : \E d \in 0..9 : SubSeq(k, n, n) = SubSeq("0123456789", d + 1, d + 1)
    /\ (Len(k) > 1 => SubSeq(k, 1, 1) # "0")

RECURSIVE NumberNamed(_)
NumberNamed(k) ==
    IF k = "" THEN 0
    ELSE 10 * NumberNamed(SubSeq(k, 1, Len(k) - 1))
         + (CHOOSE d \in 0..9 : SubSeq(k, Len(k), Len(k)) = SubSeq("0123456789", d + 1, d + 1))

\* the pairs of a record as they were inserted
InsertionOrder(rec) == rec

\* the pairs of a record as JavaScript enumerates them: the integer keys
\* first, in ascending numeric order, then the other keys as inserted
EnumerationOrder(rec) ==
    LET ints == {n \in 1..Len(rec) : IsIntegerName(rec[n][1])}
        before(n) == {m \in ints : NumberNamed(rec[m][1]) < NumberNamed(rec[n][1])}
        place(n) == IF n \in ints THEN Cardinality(before(n)) + 1
                    ELSE Cardinality(ints) + Cardinality({m \in 1..n : m \notin ints})
    IN [q \in 1..Len(rec) |-> rec[CHOOSE n \in 1..Len(rec) : place(n) = q]]

\* the text of one record, its pairs taken in the given order
BlockText(pairs) ==
    LET kept == SelectSeq(pairs, LAMBDA e : e[1] # "" /\ e[2].t = "string" /\ e[2].s # "")
    IN Glue(<<"BEGIN:VEVENT">> \o [n \in 1..Len(kept) |-> kept[n][1] \o ":" \o kept[n][2].s]
            \o <<"END:VEVENT">>)

SerialText(recs, Order(_)) == Glue([k \in 1..Len(recs) |-> BlockText(Order(recs[k]))])

\* C12 as stated: icalToString emits, for each record in list order, a
\* BEGIN:VEVENT line, one KEY:value line for each pair whose key and value
\* are both non-empty, in the record's insertion order and with the value
\* verbatim, then an END:VEVENT line, all joined by single newlines with no
\* trailing newline; a record without properties gives BEGIN:VEVENT and
\* END:VEVENT, the empty list gives the empty string.
C12_SerializedInInsertionOrder ==
    (fn = "icalToString" /\ pc = "done") => ret = SerialText(records, InsertionOrder)

\* C12 amended: the same text, the KEY:value lines of a record in the order
\* JavaScript enumerates its keys: the keys that are integers first, in
\* ascending numeric order, then the other keys in insertion order.
C12_SerializedInEnumerationOrder ==
    (fn = "icalToString" /\ pc = "done") =>
        /\ ret = SerialText(records, EnumerationOrder)
        /\ records = <<>> => ret = ""
        /\ records = <<<<>>>> => ret = "BEGIN:VEVENT\nEND:VEVENT"

\* two records were serialized: the first with two emitted pairs and a skipped
\* one, the second without properties
C12_Witness ==
    /\ fn = "icalToString" /\ pc = "done"
    /\ Len(records) = 2 /\ Len(records[1]) = 3 /\ records[2] = <<>>
    /\ \E n \in 1..3 : records[1][n][2].s = ""
    /\ ret = "BEGIN:VEVENT\nSUMMARY:a\nUID:b\nEND:VEVENT\nBEGIN:VEVENT\nEND:VEVENT"

----------------------------------------------------------------------------
(* Properties of icalToString followed by parseIcal *)

PairSet(obj) == {obj[n] : n \in 1..Len(obj)}

\* the same number of records, in the same order, each with the same pairs
SameRecords(a, b) ==
    /\ Len(a) = Len(b)
    /\ \A k \in 1..Len(a) : PairSet(a[k]) = PairSet(b[k])

HasChar(s, c) == \E k \in 1..Len(s) : SubSeq(s, k, k) = c

AllEntries(recs, P(_, _)) ==
    \A k \in 1..Len(recs) : \A n \in 1..Len(recs[k]) : P(recs[k][n][1], recs[k][n][2])

NonEmptyStrings(recs) ==
    AllEntries(recs, LAMBDA key, value : key # "" /\ value.t = "string" /\ value.s # "")

\* a string the line format carries unchanged: not empty, no newline, no
\* white space at either end
Carried(s) == s # "" /\ ~HasChar(s, "\n") /\ Strip(s) = s

\* records the text format can carry
Carriable(recs) ==
    AllEntries(recs, LAMBDA key, value :
        /\ value.t = "string"
        /\ Carried(key) /\ ~HasChar(key, ":") /\ key # "__proto__"
        /\ Carried(value.s)
        /\ ~IsMarker(key \o ":" \o value.s))

\* C1 as stated: for every list of records whose keys and values are all
\* non-empty strings, parseIcal(icalToString(records)) equals records.
C1_RoundTripNonEmpty ==
    (fn = "parseIcal" /\ pc = "done" /\ NonEmptyStrings(records))
        => SameRecords(ret, records)

\* C1 amended: parseIcal(icalToString(records)) equals records (same number
\* of records, same order, same pairs) for every list of records whose keys
\* and values are non-empty strings without a newline and without white space
\* at either end, whose keys hold no colon and are not __proto__, and none of
\* whose KEY:value lines starts with BEGIN:VEVENT or END:VEVENT.
C1_RoundTripCarriable ==
    (fn = "parseIcal" /\ pc = "done" /\ Carriable(records))
        => SameRecords(ret, records)

\* a list of two records, the first with two properties, one value holding a
\* colon, went through icalToString and parseIcal
C1_Witness ==
    /\ fn = "parseIcal" /\ pc = "done" /\ Carriable(records)
    /\ Len(records) = 2 /\ Len(records[1]) = 2
    /\ \E n \in 1..2 : HasChar(records[1][n][2].s, ":")

----------------------------------------------------------------------------
(* Numbers, strings and Date as the date-time helpers use them.  A number   *)
(* is Some(n) or Null (NaN).  A time value is a day number since 1970-01-01 *)
(* and the milliseconds within that day; a Date holds a time value or is    *)
(* invalid.                                                                 *)

NaN == Null

msPerDay == 24 * 60 * 60 * 1000

DateOf(day, ms) == [t |-> "Date", day |-> day, ms |-> ms]
InvalidDate == [t |-> "Date", nan |-> TRUE]
isInvalid(date) == "nan" \in DOMAIN date

\* days since 1970-01-01 of the proleptic Gregorian date y-m-d (m in 1..12)
daysFromCivil(y, m, d) ==
    LET yy == IF m <= 2 THEN y - 1 ELSE y
        era == yy \div 400
        yoe == yy - era * 400
        doy == (153 * (IF m > 2 THEN m - 3 ELSE m + 9) + 2) \div 5 + d - 1
        doe == yoe * 365 + yoe \div 4 - yoe \div 100 + doy
    IN era * 146097 + doe - 719468

\* the proleptic Gregorian date of a day number
civilFromDays(z) ==
    LET zz == z + 719468
        era == zz \div 146097
        doe == zz - era * 146097
        yoe == (doe - doe \div 1460 + doe \div 36524 - doe \div 146096) \div 365
        doy == doe - (365 * yoe + yoe \div 4 - yoe \div 100)
        mp == (5 * doy + 2) \div 153
        d == doy - (153 * mp + 2) \div 5 + 1
        m == IF mp < 10 THEN mp + 3 ELSE mp - 9
    IN [year |-> (yoe + era * 400) + (IF m <= 2 THEN 1 ELSE 0), month |-> m, day |-> d]

RECURSIVE natToString(_)
natToString(n) ==
    IF n < 10 THEN Digits[n + 1] ELSE natToString(n \div 10) \o Digits[(n % 10) + 1]

\* Number.prototype.toString
numberToString(x) ==
    IF x = NaN THEN "NaN"
    ELSE IF x[1] < 0 THEN "-" \o natToString(0 - x[1]) ELSE natToString(x[1])

RECURSIVE padStart(_, _, _)
\* String.prototype.padStart with a one-character filler
padStart(s, n, c) == IF Len(s) >= n THEN s ELSE padStart(c \o s, n, c)

\* String.prototype.slice with indices from 0, both non-negative
slice(s, from, to) == SubSeq(s, from + 1, IF to > Len(s) THEN Len(s) ELSE to)

\* the length of the longest prefix of s made of decimal digits
digitPrefix(s) ==
    CHOOSE n \in 0..Len(s) :
        /\ \A k \in 1..n : isDigit(SubSeq(s, k, k))
        /\ (n < Len(s) => ~isDigit(SubSeq(s, n + 1, n + 1)))

\* Number.parseInt(s, 10)
parseInt(s) ==
    LET body == trimStart(s)
        signed == body # "" /\ SubSeq(body, 1, 1) \in {"-", "+"}
        rest == IF signed THEN SubSeq(body, 2, Len(body)) ELSE body
        n == digitPrefix(rest)
    IN IF n = 0 THEN NaN
       ELSE IF signed /\ SubSeq(body, 1, 1) = "-"
       THEN Some(0 - digitsValue(SubSeq(rest, 1, n)))
       ELSE Some(digitsValue(SubSeq(rest, 1, n)))

\* the Date of the date and time given as if in UTC, shifted by `shift`
\* minutes: years 0..99 mean 1900..1999, months and times out of range carry
\* over, any NaN gives an invalid Date
makeDate(year, month, day, hours, minutes, seconds, shift) ==
    IF NaN \in {year, month, day, hours, minutes, seconds} THEN InvalidDate
    ELSE LET y == IF year[1] >= 0 /\ year[1] <= 99 THEN 1900 + year[1] ELSE year[1]
             ym == y + (month[1] \div 12)
             mn == month[1] % 12
             dayNo == daysFromCivil(ym, mn + 1, 1) + day[1] - 1
             time == hours[1] * 3600000 + (minutes[1] - shift) * 60000 + seconds[1] * 1000
         IN DateOf(dayNo + (time \div msPerDay), time % msPerDay)

\* new Date(Date.UTC(year, month, day, hours, minutes, seconds))
DateUTC(year, month, day, hours, minutes, seconds) ==
    makeDate(year, month, day, hours, minutes, seconds, 0)

\* new Date(year, month, day, hours, minutes, seconds) in the zone `zone`
DateLocal(year, month, day, hours, minutes, seconds, zone) ==
    makeDate(year, month, day, hours, minutes, seconds, zone)

\* the Date seen `shift` minutes east of UTC
shifted(date, shift) ==
    LET t == date.ms + shift * 60000 IN
    DateOf(date.day + (t \div msPerDay), t % msPerDay)

getUTCFullYear(date) == IF isInvalid(date) THEN NaN ELSE Some(civilFromDays(date.day).year)
\* getUTCMonth counts from 0
getUTCMonth(date) == IF isInvalid(date) THEN NaN ELSE Some(civilFromDays(date.day).month - 1)
getUTCDate(date) == IF isInvalid(date) THEN NaN ELSE Some(civilFromDays(date.day).day)
getUTCHours(date) == IF isInvalid(date) THEN NaN ELSE Some(date.ms \div 3600000)
getUTCMinutes(date) == IF isInvalid(date) THEN NaN ELSE Some((date.ms \div 60000) % 60)
getUTCSeconds(date) == IF isInvalid(date) THEN NaN ELSE Some((date.ms \div 1000) % 60)

\* x + 1 on a number
plusOne(x) == IF x = NaN THEN NaN ELSE Some(x[1] + 1)
minusOne(x) == IF x = NaN THEN NaN ELSE Some(x[1] - 1)

----------------------------------------------------------------------------
(* parseIcalDateTime, ical.ts lines 138-162 *)

\* Faulty variant: the time is read from every string longer than 8
\* characters, whatever the character at offset 8.
parseIcalDateTime_NoTCheck(dateTimeStr, zone) ==
    IF ~Truthy(dateTimeStr) THEN Undefined
    ELSE LET str == dateTimeStr.s
             year == parseInt(slice(str, 0, 4))
             month == minusOne(parseInt(slice(str, 4, 6)))
             day == parseInt(slice(str, 6, 8))
             hasTime == Len(str) > 8
             hours == IF hasTime THEN parseInt(slice(str, 9, 11)) ELSE Some(0)
             minutes == IF hasTime THEN parseInt(slice(str, 11, 13)) ELSE Some(0)
             seconds == IF hasTime THEN parseInt(slice(str, 13, 15)) ELSE Some(0)
         IN IF endsWith(str, "Z")
            THEN DateUTC(year, month, day, hours, minutes, seconds)
            ELSE DateLocal(year, month, day, hours, minutes, seconds, zone)

parseIcalDateTime(dateTimeStr, zone) ==
    IF ~Truthy(dateTimeStr) THEN Undefined
    ELSE LET str == dateTimeStr.s
             year == parseInt(slice(str, 0, 4))
             month == minusOne(parseInt(slice(str, 4, 6)))
             day == parseInt(slice(str, 6, 8))
             hasTime == Len(str) > 8 /\ SubSeq(str, 9, 9) = "T"
             hours == IF hasTime THEN parseInt(slice(str, 9, 11)) ELSE Some(0)
             minutes == IF hasTime THEN parseInt(slice(str, 11, 13)) ELSE Some(0)
             seconds == IF hasTime THEN parseInt(slice(str, 13, 15)) ELSE Some(0)
         IN IF endsWith(str, "Z")
            THEN DateUTC(year, month, day, hours, minutes, seconds)
            ELSE DateLocal(year, month, day, hours, minutes, seconds, zone)

----------------------------------------------------------------------------
(* formatToIcalDateTime, ical.ts lines 165-178 *)

formatToIcalDateTime(date, timezone, zone) ==
    LET seen == IF timezone /\ ~isInvalid(date) THEN shifted(date, zone) ELSE date IN
    numberToString(getUTCFullYear(seen))
    \o padStart(numberToString(plusOne(getUTCMonth(seen))), 2, "0")
    \o padStart(numberToString(getUTCDate(seen)), 2, "0")
    \o "T"
    \o padStart(numberToString(getUTCHours(seen)), 2, "0")
    \o padStart(numberToString(getUTCMinutes(seen)), 2, "0")
    \o padStart(numberToString(getUTCSeconds(seen)), 2, "0")
    \o (IF timezone THEN "" ELSE "Z")

----------------------------------------------------------------------------
(* mapIcalObjectToEvent, ical.ts lines 181-218 *)

lowerCase == "abcdefghijklmnopqrstuvwxyz"
upperCase == "ABCDEFGHIJKLMNOPQRSTUVWXYZ"

RECURSIVE toUpperCase(_)
\* String.prototype.toUpperCase on the characters the model uses
toUpperCase(s) ==
    IF s = "" THEN ""
    ELSE LET c == SubSeq(s, 1, 1)
             n == indexOf(lowerCase, c)
         IN (IF n = 0 THEN c ELSE SubSeq(upperCase, n, n)) \o toUpperCase(SubSeq(s, 2, Len(s)))

\* Array.prototype.includes
includes(arr, x) == \E n \in 1..Len(arr) : arr[n] = x

RECURSIVE copyOtherProperties(_, _)
\* lines 203-216: every key of icalObj outside the six mapped ones is copied
copyOtherProperties(ev, es) ==
    IF es = <<>> THEN ev
    ELSE LET key == es[1][1] IN
         copyOtherProperties(
            IF ~includes(<<"UID", "SUMMARY", "DTSTART", "DTEND", "LOCATION", "DESCRIPTION">>, key)
            THEN set(ev, key, es[1][2]) ELSE ev,
            Tail(es))

\* Faulty variant of lines 183-191: LOCATION and DESCRIPTION are not examined.
invalidIcalObject_RequiredOnly(obj) ==
    \/ typeof(get(obj, "UID")) # "string"
    \/ typeof(get(obj, "SUMMARY")) # "string"
    \/ typeof(get(obj, "DTSTART")) # "string"
    \/ typeof(get(obj, "DTEND")) # "string"

\* lines 183-191: the condition under which the function throws
invalidIcalObject(obj) ==
    \/ typeof(get(obj, "UID")) # "string"
    \/ typeof(get(obj, "SUMMARY")) # "string"
    \/ typeof(get(obj, "DTSTART")) # "string"
    \/ typeof(get(obj, "DTEND")) # "string"
    \/ (get(obj, "LOCATION") # Undefined /\ typeof(get(obj, "LOCATION")) # "string")
    \/ (get(obj, "DESCRIPTION") # Undefined /\ typeof(get(obj, "DESCRIPTION")) # "string")

\* lines 195-217: the Event of a valid record
mapIcalObjectToEvent(obj, zone) ==
    LET e1 == set(<<>>, "id", get(obj, "UID"))
        e2 == set(e1, "summary", get(obj, "SUMMARY"))
        e3 == set(e2, "start", parseIcalDateTime(get(obj, "DTSTART"), zone))
        e4 == set(e3, "end", parseIcalDateTime(get(obj, "DTEND"), zone))
        e5 == IF Truthy(get(obj, "LOCATION"))
              THEN set(e4, "location", get(obj, "LOCATION")) ELSE e4
        e6 == IF Truthy(get(obj, "DESCRIPTION"))
              THEN set(e5, "description", get(obj, "DESCRIPTION")) ELSE e5
    IN copyOtherProperties(e6, entries(obj))

mapIcalObjectToEventCall ==
    /\ fn = "mapIcalObjectToEvent" /\ pc = "call"
    /\ IF invalidIcalObject(icalObj)
       THEN /\ thrown' = Some("Invalid iCal object")
            /\ pc' = "thrown"
            /\ UNCHANGED ret
       ELSE /\ ret' = mapIcalObjectToEvent(icalObj, tz)
            /\ pc' = "done"
            /\ UNCHANGED thrown
    /\ UNCHANGED <<fn, icalData, baseUrl, lines, i, currentLine, webDavLines,
                   icalLines, currentEvent, events, records, event, icalObj, tz,
                   dateVars, callerVars>>

----------------------------------------------------------------------------
(* mapEventToIcalObject, ical.ts lines 221-241 *)

RECURSIVE copyCustomProperties(_, _)
\* lines 231-239: every key of the event outside the six named fields is
\* copied under its upper-cased name
copyCustomProperties(obj, es) ==
    IF es = <<>> THEN obj
    ELSE LET key == es[1][1] IN
         copyCustomProperties(
            IF ~includes(<<"id", "summary", "start", "end", "location", "description">>, key)
            THEN set(obj, toUpperCase(key), es[1][2]) ELSE obj,
            Tail(es))

mapEventToIcalObject(ev, zone) ==
    LET o1 == IF Truthy(get(ev, "id")) THEN set(<<>>, "UID", get(ev, "id")) ELSE <<>>
        o2 == set(o1, "SUMMARY", get(ev, "summary"))
        o3 == set(o2, "DTSTART", Str(formatToIcalDateTime(get(ev, "start"), FALSE, zone)))
        o4 == set(o3, "DTEND", Str(formatToIcalDateTime(get(ev, "end"), FALSE, zone)))
        o5 == IF Truthy(get(ev, "location"))
              THEN set(o4, "LOCATION", get(ev, "location")) ELSE o4
        o6 == IF Truthy(get(ev, "description"))
              THEN set(o5, "DESCRIPTION", get(ev, "description")) ELSE o5
    IN copyCustomProperties(o6, entries(ev))

mapEventToIcalObjectCall ==
    /\ fn = "mapEventToIcalObject" /\ pc = "call"
    /\ ret' = mapEventToIcalObject(event, tz)
    /\ pc' = "done"
    /\ UNCHANGED <<fn, icalData, baseUrl, lines, i, currentLine, webDavLines,
                   icalLines, currentEvent, events, records, event, icalObj,
                   thrown, tz, dateVars, callerVars>>

\* the caller maps the record back
\* (mapIcalObjectToEvent(mapEventToIcalObject(event)))
mapIcalObjectToEventOfResult ==
    /\ fn = "mapEventToIcalObject" /\ pc = "done"
    /\ icalObj' = ret
    /\ fn' = "mapIcalObjectToEvent"
    /\ pc' = "call"
    /\ ret' = Null
    /\ UNCHANGED <<icalData, baseUrl, lines, i, currentLine, webDavLines,
                   icalLines, currentEvent, events, records, event, thrown, tz,
                   dateVars, callerVars>>

\* instants: 2023-01-01T10:00:00Z, 2024-02-29T23:59:59Z, 0999-12-31T00:00:00Z
\* and 2023-01-01T10:00:00.500Z
EventDates ==
    {DateOf(daysFromCivil(2023, 1, 1), 36000000),
     DateOf(daysFromCivil(2024, 2, 29), 86399000),
     DateOf(daysFromCivil(999, 12, 31), 0),
     DateOf(daysFromCivil(2023, 1, 1), 36000500)}

CustomFields ==
    {<<"customField", "value1">>, <<"X_CUSTOM_PROP", "Custom Value">>,
     <<"Summary", "other">>, <<"uid", "u2">>}

\* sequences of custom fields with distinct names
CustomLists ==
    {c \in SeqsUpTo(CustomFields, MaxCustom) :
        \A m \in 1..Len(c), n \in 1..Len(c) : m # n => c[m][1] # c[n][1]}

Optional(key, values) == {<<>>} \cup {<<<<key, Str(v)>>>> : v \in values}

\* the Events a caller maps: id, location and description absent or set
Events ==
    {id \o <<<<"summary", Str("Test Event")>>, <<"start", st>>, <<"end", en>>>>
        \o loc \o desc \o [n \in 1..Len(c) |-> <<c[n][1], Str(c[n][2])>>] :
            id \in Optional("id", {"event1@example.com", ""}),
            st \in EventDates, en \in EventDates,
            loc \in Optional("location", {"Conference Room"}),
            desc \in Optional("description", {"This is a test event."}),
            c \in CustomLists}

TimeZones == {0, 0 - 300}

\* a property of a record: absent, or present with one of the values
Property(key, values) == {<<>>} \cup {<<<<key, v>>>> : v \in values}

\* records a caller hands to mapIcalObjectToEvent: each required property
\* absent, a string or of another type; LOCATION and DESCRIPTION absent, a
\* string, empty, of another type or undefined
CheckedObjects ==
    {uid \o sum \o st \o en \o loc \o desc :
        uid \in Property("UID", {Str("event1@example.com"), Bool(TRUE)}),
        sum \in Property("SUMMARY", {Str("Test Event"), Bool(TRUE)}),
        st \in Property("DTSTART", {Str("20230101T100000Z"), Bool(TRUE)}),
        en \in Property("DTEND", {Str("20230101T110000Z"), Undefined}),
        loc \in Property("LOCATION", {Str("Conference Room"), Str(""), Bool(FALSE), Undefined}),
        desc \in Property("DESCRIPTION", {Str("This is a test event."), Bool(TRUE)})}

\* further properties of a record: two that name no Event field, two that
\* bear the name of one
OtherProps ==
    {<<"X-CUSTOM-PROP", "Custom Value">>, <<"customField", "value1">>,
     <<"summary", "other">>, <<"start", "20240101">>}

\* sequences of further properties with distinct names
OtherLists ==
    {c \in SeqsUpTo(OtherProps, MaxCustom) :
        \A m \in 1..Len(c), n \in 1..Len(c) : m # n => c[m][1] # c[n][1]}

\* DTSTART texts: UTC, local, date only
StartTexts == {"20230101T100000Z", "20230101T100000", "20230101"}

\* valid records: the required strings, LOCATION and DESCRIPTION absent or
\* strings, further properties
ValidObjects ==
    {<<<<"UID", Str("event1@example.com")>>, <<"SUMMARY", Str("Test Event")>>,
       <<"DTSTART", Str(st)>>, <<"DTEND", Str("20230101T110000Z")>>>>
        \o loc \o desc \o [n \in 1..Len(c) |-> <<c[n][1], Str(c[n][2])>>] :
            st \in StartTexts,
            loc \in Property("LOCATION", {Str("Conference Room"), Str("")}),
            desc \in Property("DESCRIPTION",
                              {Str("This is a test event with a colon: in the description.")}),
            c \in OtherLists}

IcalObjects == CheckedObjects \cup ValidObjects

InitEvent ==
    /\ \/ /\ fn = "mapEventToIcalObject"
          /\ event \in Events
          /\ icalObj = Null
          /\ tz \in TimeZones
       \/ /\ fn = "mapIcalObjectToEvent"
          /\ event = Null
          /\ icalObj \in IcalObjects
          /\ tz \in TimeZones
    /\ pc = "call"
    /\ thrown = Null
    /\ NoDateCall
    /\ NoTwinCall
    /\ icalData = ""
    /\ baseUrl = ""
    /\ lines = <<>>
    /\ i = 1
    /\ currentLine = Null
    /\ webDavLines = <<>>
    /\ icalLines = <<>>
    /\ currentEvent = Null
    /\ events = <<>>
    /\ records = Null
    /\ ret = Null

NextEvent ==
    \/ mapEventToIcalObjectCall
    \/ mapIcalObjectToEventOfResult
    \/ mapIcalObjectToEventCall

SpecEvent == InitEvent /\ [][NextEvent]_vars

----------------------------------------------------------------------------
(* The date-time helpers on their own *)

parseIcalDateTimeCall ==
    /\ fn = "parseIcalDateTime" /\ pc = "call"
    /\ ret' = parseIcalDateTime(dateTimeArg, tz)
    /\ pc' = "done"
    /\ UNCHANGED <<fn, icalData, baseUrl, lines, i, currentLine, webDavLines,
                   icalLines, currentEvent, events, records, mapperVars>>

formatToIcalDateTimeCall ==
    /\ fn = "formatToIcalDateTime" /\ pc = "call"
    /\ ret' = formatToIcalDateTime(dateArg, timezoneArg, tz)
    /\ pc' = "done"
    /\ UNCHANGED <<fn, icalData, baseUrl, lines, i, currentLine, webDavLines,
                   icalLines, currentEvent, events, records, mapperVars>>

\* the caller formats the parsed Date
\* (formatToIcalDateTime(parseIcalDateTime(icalDateTime)))
formatToIcalDateTimeOfResult ==
    /\ fn = "parseIcalDateTime" /\ pc = "done" /\ ret # Undefined
    /\ dateArg' = ret
    /\ timezoneArg' = FALSE
    /\ fn' = "formatToIcalDateTime"
    /\ pc' = "call"
    /\ ret' = Null
    /\ UNCHANGED <<icalData, baseUrl, lines, i, currentLine, webDavLines,
                   icalLines, currentEvent, events, records, event, icalObj,
                   thrown, tz, dateTimeArg, callerVars>>

\* date-time texts in the UTC form: years of four digits, below 1000 and
\* below 100, the last day of February in a leap year, the ends of the day
UtcYears == {"2023", "2024", "1999", "0999", "0050", "9999"}
UtcDays == {"0101", "0229", "0630", "1231"}
UtcTimes == {"000000", "100000", "235959"}
UtcTexts == {y \o d \o "T" \o t \o "Z" : y \in UtcYears, d \in UtcDays, t \in UtcTimes}

\* other arguments of parseIcalDateTime: the local and the date-only form,
\* components out of range, no T at offset 8, texts too short, no digits
OtherTexts ==
    {"20230101T100000", "20230101", "20230101Z", "20231316T250000Z",
     "20230101X100000", "20230101t100000Z", "20230101T1000", "2023",
     "not a date", "20230100T000000Z", "20230101T235960"}

DateTimeArgs == {Undefined, Str("")} \cup {Str(x) : x \in UtcTexts \cup OtherTexts}

\* instants handed to formatToIcalDateTime: those of the Events, one in the
\* year 50 and one in the year 12345
FormatDates ==
    EventDates \cup {DateOf(daysFromCivil(50, 6, 15), 3723000),
                     DateOf(daysFromCivil(12345, 1, 1), 0)}

InitDate ==
    /\ \/ /\ fn = "parseIcalDateTime"
          /\ dateTimeArg \in DateTimeArgs
          /\ dateArg = Null
          /\ timezoneArg = FALSE
       \/ /\ fn = "formatToIcalDateTime"
          /\ dateTimeArg = Null
          /\ dateArg \in FormatDates
          /\ timezoneArg \in BOOLEAN
    /\ tz \in TimeZones
    /\ NoTwinCall
    /\ pc = "call"
    /\ ret = Null
    /\ event = Null
    /\ icalObj = Null
    /\ thrown = Null
    /\ icalData = ""
    /\ baseUrl = ""
    /\ lines = <<>>
    /\ i = 1
    /\ currentLine = Null
    /\ webDavLines = <<>>
    /\ icalLines = <<>>
    /\ currentEvent = Null
    /\ events = <<>>
    /\ records = Null

NextDate ==
    \/ parseIcalDateTimeCall
    \/ formatToIcalDateTimeOfResult
    \/ formatToIcalDateTimeCall

SpecDate == InitDate /\ [][NextDate]_vars

----------------------------------------------------------------------------
(* Properties of the date-time helpers *)

IsDigitChar(c) == \E d \in 0..9 : c = SubSeq("0123456789", d + 1, d + 1)

\* the characters of s at the 1-based positions from..to are decimal digits
DigitsAt(s, from, to) == Len(s) >= to /\ \A k \in from..to : IsDigitChar(SubSeq(s, k, k))

\* C16: for every instant, formatToIcalDateTime returns a string of fixed
\* shape: a year of 4 digits, month and day of 2 digits each, T, hour, minute
\* and second of 2 digits each, followed by Z in the default UTC mode (16
\* characters) and by nothing when local-time rendering is requested (15
\* characters), also for years below 1000.
C16_FixedShape ==
    (fn = "formatToIcalDateTime" /\ pc = "done" /\ "nan" \notin DOMAIN dateArg) =>
        /\ Len(ret) = IF timezoneArg THEN 15 ELSE 16
        /\ DigitsAt(ret, 1, 8)
        /\ SubSeq(ret, 9, 9) = "T"
        /\ DigitsAt(ret, 10, 15)
        /\ ~timezoneArg => SubSeq(ret, 16, 16) = "Z"

IsLeapYear(y) == y % 4 = 0 /\ (y % 100 # 0 \/ y % 400 = 0)

DaysInMonth(y, m) ==
    IF m = 2 THEN (IF IsLeapYear(y) THEN 29 ELSE 28)
    ELSE IF m \in {4, 6, 9, 11} THEN 30 ELSE 31

\* the number written at the 1-based positions from..to of s
NumberAt(s, from, to) == NumberNamed(SubSeq(s, from, to))

\* s has the form YYYYMMDDTHHMMSSZ and denotes a calendar date and a time of day
IsValidUtcText(s) ==
    /\ Len(s) = 16
    /\ DigitsAt(s, 1, 8) /\ SubSeq(s, 9, 9) = "T" /\ DigitsAt(s, 10, 15)
    /\ SubSeq(s, 16, 16) = "Z"
    /\ NumberAt(s, 5, 6) \in 1..12
    /\ NumberAt(s, 7, 8) \in 1..DaysInMonth(NumberAt(s, 1, 4), NumberAt(s, 5, 6))
    /\ NumberAt(s, 10, 11) \in 0..23
    /\ NumberAt(s, 12, 13) \in 0..59
    /\ NumberAt(s, 14, 15) \in 0..59

\* C17: for every string s of the form YYYYMMDDTHHMMSSZ that denotes a valid
\* UTC calendar date and time of day, formatToIcalDateTime(parseIcalDateTime(s))
\* in UTC mode equals s.
C17_UtcTextRoundTrip ==
    (fn = "formatToIcalDateTime" /\ pc = "done" /\ dateTimeArg # <<>>
        /\ IsValidUtcText(dateTimeArg.s))
     => ret = dateTimeArg.s

\* the argument is a string whose date part, and time part if it has one,
\* are digits at the fixed offsets
HasTimePart(s) == Len(s) > 8 /\ SubSeq(s, 9, 9) = "T"
IsFixedWidth(s) == DigitsAt(s, 1, 8) /\ (HasTimePart(s) => DigitsAt(s, 10, 15))

\* the instant the components at the fixed offsets of s denote
InstantOf(s, zone) ==
    LET year == <<NumberAt(s, 1, 4)>>
        month == <<NumberAt(s, 5, 6) - 1>>
        day == <<NumberAt(s, 7, 8)>>
        hours == IF HasTimePart(s) THEN <<NumberAt(s, 10, 11)>> ELSE <<0>>
        minutes == IF HasTimePart(s) THEN <<NumberAt(s, 12, 13)>> ELSE <<0>>
        seconds == IF HasTimePart(s) THEN <<NumberAt(s, 14, 15)>> ELSE <<0>>
    IN IF SubSeq(s, Len(s), Len(s)) = "Z"
       THEN DateUTC(year, month, day, hours, minutes, seconds)
       ELSE DateLocal(year, month, day, hours, minutes, seconds, zone)

\* C18: parseIcalDateTime returns absent for an absent or empty input;
\* otherwise it takes year, month, day from characters [0:4], [4:6], [6:8],
\* takes hour, minute, second from [9:11], [11:13], [13:15] only when the
\* character at offset 8 is T and sets them to 0 otherwise, and builds the
\* instant in UTC when the string ends with Z and in the local time zone when
\* it does not; components out of range are never rejected with an error.
C18_ParsedAtFixedOffsets ==
    (fn = "parseIcalDateTime" /\ pc = "done") =>
        /\ thrown = <<>>
        /\ IF dateTimeArg \in {[t |-> "undefined"], [t |-> "string", s |-> ""]}
           THEN ret = [t |-> "undefined"]
           ELSE /\ ret.t = "Date"
                /\ IsFixedWidth(dateTimeArg.s) => ret = InstantOf(dateTimeArg.s, tz)

\* a text without Z and without T at offset 8 was parsed west of UTC: the
\* instant is the local midnight of the date
C18_Witness ==
    /\ fn = "parseIcalDateTime" /\ pc = "done" /\ tz = 0 - 300
    /\ dateTimeArg = [t |-> "string", s |-> "20230101X100000"]
    /\ ret = [t |-> "Date", day |-> 19358, ms |-> 18000000]

----------------------------------------------------------------------------
(* Properties of the Event mapping *)

\* the six named fields of an Event
NamedFields == {"id", "summary", "start", "end", "location", "description"}

\* the value of field k of an object
Field(obj, k) == obj[CHOOSE n \in 1..Len(obj) : obj[n][1] = k][2]

\* field k of the mapped Event equals field k of the original
Recovered(k) == HasKey(ret, k) /\ Field(ret, k) = Field(event, k)

\* C3: for every Event e, with or without id, location, description and
\* custom fields, mapIcalObjectToEvent(mapEventToIcalObject(e)) succeeds and
\* returns an Event with the summary, start and end of e, with the id,
\* location and description of e whenever e has them, and with every custom
\* field of e under its upper-cased name with the same value.
C3_EventRoundTrip ==
    (fn = "mapIcalObjectToEvent" /\ pc # "call" /\ event # Null) =>
        /\ pc = "done"
        /\ Recovered("summary") /\ Recovered("start") /\ Recovered("end")
        /\ \A k \in {"id", "location", "description"} : HasKey(event, k) => Recovered(k)
        /\ \A n \in 1..Len(event) :
              event[n][1] \notin NamedFields
                 => HasEntry(ret, toUpperCase(event[n][1]), event[n][2])

\* the record holds a string under k
IsString(obj, k) == \E n \in 1..Len(obj) : obj[n][1] = k /\ obj[n][2].t = "string"

\* the record holds a value under k (a property holding undefined counts as
\* absent)
IsPresent(obj, k) == \E n \in 1..Len(obj) : obj[n][1] = k /\ obj[n][2] # [t |-> "undefined"]

\* what C13 names an invalid record
Rejected(obj) ==
    \/ \E k \in {"UID", "SUMMARY", "DTSTART", "DTEND"} : ~IsString(obj, k)
    \/ \E k \in {"LOCATION", "DESCRIPTION"} : IsPresent(obj, k) /\ ~IsString(obj, k)

\* C13: mapIcalObjectToEvent fails with an error, returning no Event, exactly
\* when one of UID, SUMMARY, DTSTART, DTEND is missing or not a string, or
\* LOCATION or DESCRIPTION is present and not a string; for every other
\* record it returns an Event.
C13_ThrowsIffInvalid ==
    (fn = "mapIcalObjectToEvent" /\ pc # "call") =>
        IF Rejected(icalObj)
        THEN pc = "thrown" /\ thrown = <<"Invalid iCal object">> /\ ret = <<>>
        ELSE pc = "done" /\ thrown = <<>> /\ ret # <<>>

\* a record with the four required strings was rejected for its LOCATION
C13_Witness ==
    /\ fn = "mapIcalObjectToEvent" /\ pc = "thrown" /\ event = <<>>
    /\ \A k \in {"UID", "SUMMARY", "DTSTART", "DTEND"} : IsString(icalObj, k)
    /\ IsPresent(icalObj, "LOCATION") /\ ~IsString(icalObj, "LOCATION")
    /\ ~IsPresent(icalObj, "DESCRIPTION")

MappedKeys == {"UID", "SUMMARY", "DTSTART", "DTEND", "LOCATION", "DESCRIPTION"}

\* the names of the fields of an object
KeysOf(obj) == {obj[n][1] : n \in 1..Len(obj)}

\* C14: for every valid record, mapIcalObjectToEvent returns an Event with
\* id = UID, summary = SUMMARY, start and end the decoded DTSTART and DTEND,
\* location = LOCATION whenever the record has a LOCATION key, description =
\* DESCRIPTION whenever it has a DESCRIPTION key, one custom field for every
\* other key of the record, under the same name and with the same value, and
\* no further fields.
C14_EventOfValidRecord ==
    (fn = "mapIcalObjectToEvent" /\ pc = "done") =>
        /\ HasEntry(ret, "id", Field(icalObj, "UID"))
        /\ HasEntry(ret, "summary", Field(icalObj, "SUMMARY"))
        /\ HasEntry(ret, "start", parseIcalDateTime(Field(icalObj, "DTSTART"), tz))
        /\ HasEntry(ret, "end", parseIcalDateTime(Field(icalObj, "DTEND"), tz))
        /\ HasKey(icalObj, "LOCATION") => HasEntry(ret, "location", Field(icalObj, "LOCATION"))
        /\ HasKey(icalObj, "DESCRIPTION")
              => HasEntry(ret, "description", Field(icalObj, "DESCRIPTION"))
        /\ \A n \in 1..Len(icalObj) :
              icalObj[n][1] \notin MappedKeys => HasEntry(ret, icalObj[n][1], icalObj[n][2])
        /\ KeysOf(ret) = {"id", "summary", "start", "end"}
                           \cup (IF HasKey(icalObj, "LOCATION") THEN {"location"} ELSE {})
                           \cup (IF HasKey(icalObj, "DESCRIPTION") THEN {"description"} ELSE {})
                           \cup (KeysOf(icalObj) \ MappedKeys)

\* the Event has a truthy value under k
IsSet(ev, k) == HasKey(ev, k) /\ Field(ev, k) \notin {[t |-> "undefined"], [t |-> "string", s |-> ""]}

\* the custom fields of an Event: its entries outside the six named fields
CustomEntries(ev) == {ev[n] : n \in {m \in 1..Len(ev) : ev[m][1] \notin NamedFields}}

\* C15: mapEventToIcalObject returns a record that has UID only when
\* event.id is truthy, always has SUMMARY, DTSTART and DTEND (the dates in
\* the UTC format ending in Z), has LOCATION and DESCRIPTION only when the
\* Event field is truthy, and has one entry for every other Event field under
\* its upper-cased name with the same value; id, summary, start, end,
\* location and description are never copied as custom entries.
C15_RecordOfEvent ==
    (fn = "mapEventToIcalObject" /\ pc = "done") =>
        /\ HasKey(ret, "UID") => IsSet(event, "id")
        /\ HasKey(ret, "SUMMARY")
        /\ HasEntry(ret, "DTSTART", Str(formatToIcalDateTime(Field(event, "start"), FALSE, tz)))
        /\ HasEntry(ret, "DTEND", Str(formatToIcalDateTime(Field(event, "end"), FALSE, tz)))
        /\ HasKey(ret, "LOCATION") => IsSet(event, "location")
        /\ HasKey(ret, "DESCRIPTION") => IsSet(event, "description")
        /\ \A e \in CustomEntries(event) : HasEntry(ret, toUpperCase(e[1]), e[2])
        /\ KeysOf(ret) \subseteq
              {"UID", "SUMMARY", "DTSTART", "DTEND", "LOCATION", "DESCRIPTION"}
                 \cup {toUpperCase(e[1]) : e \in CustomEntries(event)}
        /\ KeysOf(ret) \cap {"ID", "START", "END"} = {}

\* C22: whatever custom fields the Event carries, fields whose names differ
\* from a core property name only by letter case included, the record
\* mapEventToIcalObject returns has SUMMARY equal to event.summary, DTSTART
\* and DTEND equal to the UTC formatting of event.start and event.end, and
\* a UID that is absent or equal to event.id: no custom field overwrites a
\* core property.
C22_CoreNotOverwritten ==
    (fn = "mapEventToIcalObject" /\ pc = "done"
        /\ CustomEntries(event) # {}) =>
        /\ HasEntry(ret, "SUMMARY", Field(event, "summary"))
        /\ Field(ret, "DTSTART") = Str(formatToIcalDateTime(Field(event, "start"), FALSE, tz))
        /\ Field(ret, "DTEND") = Str(formatToIcalDateTime(Field(event, "end"), FALSE, tz))
        /\ HasKey(ret, "UID") =>
              HasKey(event, "id") /\ Field(ret, "UID") = Field(event, "id")

----------------------------------------------------------------------------
(* The whole module: any of the exported functions is called *)

Init == InitExtract \/ InitParse \/ InitCodec \/ InitEvent \/ InitDate \/ InitTwin
            \/ InitRescan

Next == NextExtract \/ NextParse \/ NextCodec \/ NextEvent \/ NextDate \/ NextTwin
            \/ NextRescan

Spec == Init /\ [][Next]_vars

====
